---- MODULE Spec2Model ----
(***************************************************************************)
(* Zentra backend: the connection registry, the message store, the         *)
(* broadcast fan-out (zentra/connection_manager.py) and the websocket      *)
(* endpoint with its heartbeat loop and the send route (main.py).          *)
(*                                                                         *)
(* Every coroutine is a process; a step of the model runs a coroutine from *)
(* one await to the next, so tasks interleave exactly at awaits.           *)
(***************************************************************************)
EXTENDS Integers, Sequences, FiniteSets, TLC

\* ------------------------------------------------------------------ bounds
\* connections opened in one run (at most 5: a CPython dict keeps its entry
\* array, and so the iterator positions modelled below, up to 5 insertions)
MaxConns == 2
\* POST /conversations/{id}/messages requests in one run
MaxSends == 2
\* clients that close their websocket in one run
MaxDrops == 1
\* PINGs of the session of the heartbeat specification
HBCycles == 4
\* calls the second client address may have taken from its bucket at a time
MaxOther == 2

ConnIds == 1..MaxConns
ReqIds == 1..MaxSends
\* the name path parameter of /ws/{name}
Names == {"ann", "bob"}
\* the conversation_id path parameter
Convs == {7, 8}
\* the content of a MessageSend body
Contents == {"hi"}
\* the X-Forwarded-For header of a request; "default" is a request without
\* the header (main.py 75 then takes the key 1)
Addrs == {"default", "10.0.0.2"}

\* ------------------------------------------------- Python values, dict, JSON
\* None, for an absent header and for dict.get of a missing key
None == 0

\* a deleted slot of a dict's entry array (CPython keeps the slot, value NULL)
Dummy == [id |-> 0, name |-> "", nonce |-> 0]

\* the Connection dataclass (the websocket field is the transport ws[id])
Connection(id, name, nonce) == [id |-> id, name |-> name, nonce |-> nonce]

\* the ids of the live entries of a dict's entry array
Keys(d) == {d[i].id : i \in {j \in 1..Len(d) : d[j] # Dummy}}

\* len(dict): ma_used
Used(d) == Cardinality({j \in 1..Len(d) : d[j] # Dummy})

\* dict.get(key): the value, or the Dummy slot standing for None
DictGet(d, key) ==
  IF key \in Keys(d)
    THEN d[CHOOSE i \in 1..Len(d) : d[i] # Dummy /\ d[i].id = key]
    ELSE Dummy

\* dict[key] = value: an existing key keeps its slot, a new key takes the next
DictSet(d, key, value) ==
  IF key \in Keys(d)
    THEN [i \in 1..Len(d) |-> IF d[i] # Dummy /\ d[i].id = key THEN value ELSE d[i]]
    ELSE Append(d, value)

\* dict.pop(key, None): the slot stays in the entry array, emptied
DictPop(d, key) ==
  [i \in 1..Len(d) |-> IF d[i] # Dummy /\ d[i].id = key THEN Dummy ELSE d[i]]

\* iter(dict.values()): position in the entry array, items still expected,
\* and the size of the dict when the iterator was made
DictIter(d) == [pos |-> 0, len |-> Used(d), used |-> Used(d)]

\* next() of a dict values iterator (CPython dictiter_iternextvalue): a size
\* other than the one at creation raises RuntimeError; deleted slots are
\* skipped; an entry found when none is expected any more raises RuntimeError
DictIterNext(d, it) ==
  LET live == {i \in (it.pos + 1)..Len(d) : d[i] # Dummy}
      i == CHOOSE k \in live : \A j \in live : k <= j
  IN  IF it.used # Used(d) THEN [kind |-> "RuntimeError", item |-> Dummy, it |-> it]
      ELSE IF live = {} THEN [kind |-> "StopIteration", item |-> Dummy, it |-> it]
      ELSE IF it.len = 0 THEN [kind |-> "RuntimeError", item |-> Dummy, it |-> it]
      ELSE [kind |-> "item", item |-> d[i],
            it |-> [pos |-> i, len |-> it.len - 1, used |-> it.used]]

\* --------------------------------------------------------------- variables
VARIABLES
  connection_counter,     \* ConnectionManager._connection_counter: next value
  message_count,          \* ConnectionManager._current_message_count: next value
  active_connections,     \* ConnectionManager.active_connections (entry array)
  conversation_history,   \* ConnectionManager.conversation_history
  ws,                     \* per connection: the state of its websocket
  pc,                     \* per connection: where websocket_endpoint stands
  current_ack,            \* websocket_endpoint local, per connection
  has_missed_ping,        \* websocket_endpoint local, per connection
  has_missed_ping_twice,  \* websocket_endpoint local, per connection
  connection,             \* websocket_endpoint local, per connection
  close_code,             \* per connection: code of websocket.close, 0 if none
  outbox,                 \* per connection: the packets sent on its websocket
  req,                    \* per send request: where send_message stands
  issued,                 \* history: the values next_message_id returned
  lastAppended,           \* history: per conversation, the last message appended
  hist,                   \* history: per connection, each response good or bad
  lastResp,               \* history: per connection, the last response handled
  cleanup,                \* history: per connection, the ids each cleanup call removed
  global_ratelimit,       \* main.py 31: per key, the calls left in its bucket
  authenticated_ratelimit,\* main.py 32: per key, the calls left in its bucket
  lastHttp                \* history: the last HTTP request answered

vars == <<connection_counter, message_count, active_connections,
          conversation_history, ws, pc, current_ack, has_missed_ping,
          has_missed_ping_twice, connection, close_code, outbox, req, issued,
          lastAppended, hist, lastResp, cleanup, global_ratelimit,
          authenticated_ratelimit, lastHttp>>

limiterVars == <<global_ratelimit, authenticated_ratelimit, lastHttp>>

managerVars == <<connection_counter, message_count, active_connections,
                 conversation_history>>
loopVars == <<current_ack, has_missed_ping, has_missed_ping_twice>>

\* ------------------------------------------------------ the websocket
\* What a send on a websocket can do, by the websocket's state: it is handed
\* to the transport ("ok"); it raises WebSocketDisconnect / ConnectionClosedOK
\* because the peer is gone ("closed"); or it raises another error ("error":
\* Starlette's RuntimeError for a send after the server's close).  accept()
\* marks the websocket connected before it awaits the handshake, so a send
\* made while accept is suspended is handed to the transport.
SendOutcomes(state) ==
  CASE state = "open" -> {"ok"}
    [] state = "peer_closed" -> {"closed"}
    [] state = "connecting" -> {"ok"}
    [] OTHER -> {"error"}

\* the packets of the protocol
Hello(id, nonce) == [type |-> "HELLO", data |-> <<id, nonce>>]
Ping(ack) == [type |-> "PING", data |-> ack]
Error(code) == [type |-> "ERROR", data |-> code]
NewMessage(message) == [type |-> "NEW_MESSAGE", data |-> message]

\* secrets.token_hex(32): 256 random bits, so the n-th token differs from
\* every other one
TokenHex(n) == 100 + n

\* ------------------------------------------------- heartbeat responses
\* The text a client sends after a PING, by what json.loads and the field
\* reads make of it:
\*   shape  "text" (not JSON), "scalar" (JSON, not an object), "object"
\*   type   the "type" member: "absent", "PONG", or another value ("PING")
\*   data   the "data" member: "absent", "falsy" ({} 0 "" null), "nonobj"
\*          (a truthy value that is no object), "obj"
\*   ack    the "ack" member of data: NoAck when absent, else a number
NoAck == -1
Resp(shape, type, data, ack) ==
  [shape |-> shape, type |-> type, data |-> data, ack |-> ack]
NoResp == Resp("none", "absent", "absent", NoAck)

Responses(acks) ==
  {Resp("text", "absent", "absent", NoAck), Resp("scalar", "absent", "absent", NoAck)}
  \cup {Resp("object", t, d, NoAck) :
          t \in {"absent", "PONG", "PING"}, d \in {"absent", "falsy", "nonobj"}}
  \cup {Resp("object", t, "obj", a) :
          t \in {"absent", "PONG", "PING"}, a \in acks \cup {NoAck}}

\* the answer the PING event asks for: the same layout, type PONG, same ack
GoodPong(ack) == Resp("object", "PONG", "obj", ack)

\* mutant: the ack is advanced before the comparison with the one sent
HandleResponseAckAhead(resp, ack) ==
  IF resp.shape = "text" THEN "4001"
  ELSE IF resp.shape = "scalar" THEN "AttributeError"
  ELSE IF resp.type # "PONG"
    THEN IF resp.type = "absent" THEN "KeyError" ELSE "4003"
  ELSE IF resp.data \in {"absent", "falsy"} THEN "4004"
  ELSE IF resp.data = "nonobj" THEN "AttributeError"
  ELSE IF resp.ack # ack + 1 THEN "4005"
  ELSE "ok"

\* main.py 295-369: what one loop iteration does with the received text.
\* "ok", an error code, or the exception the statement raises.
HandleResponse(resp, ack) ==
  IF resp.shape = "text" THEN "4001"                 \* json.loads raises
  ELSE IF resp.shape = "scalar" THEN "AttributeError" \* data.get on a non-dict
  ELSE IF resp.type # "PONG"
    THEN IF resp.type = "absent" THEN "KeyError"      \* data['type'] in the print
         ELSE "4003"
  ELSE IF resp.data \in {"absent", "falsy"} THEN "4004"  \* not nested_data
  ELSE IF resp.data = "nonobj" THEN "AttributeError"   \* nested_data.get
  ELSE IF resp.ack # ack THEN "4005"
  ELSE "ok"

ErrorCodes == {"4001", "4003", "4004", "4005"}

\* mutant: a miss after a miss does not set has_missed_ping_twice
MissFlagsNoSecond(missed, twice) == [missed |-> TRUE, twice |-> twice]

\* main.py 308-310 (and 324-326, 343-345, 362-364): the flags after a miss
MissFlags(missed, twice) ==
  [missed |-> TRUE, twice |-> IF missed THEN TRUE ELSE twice]

\* mutant: a correct PONG does not clear has_missed_ping
OkFlagsKeepMiss(missed, twice) == [missed |-> missed, twice |-> FALSE]

\* main.py 367-369: the flags after a correct PONG
OkFlags(missed, twice) == [missed |-> FALSE, twice |-> FALSE]

\* mutant: the ack is advanced after every response
AckAfterAlways(out, ack) == ack + 1

\* main.py 311, 327, 346, 365 (continue) and 367: current_ack after a
\* response with outcome out
AckAfter(out, ack) == IF out = "ok" THEN ack + 1 ELSE ack

\* the number of PINGs sent on a connection so far
Pings(c) == Cardinality({i \in 1..Len(outbox[c]) : outbox[c][i].type = "PING"})

\* ------------------------------------------------- ConnectionManager
\* mutant: the id is the number of live connections plus one
NextConnectionIdLive(counter) ==
  [value |-> Used(active_connections) + 1, next |-> counter + 1]

\* next(count(1)): the value handed out and the counter afterwards
NextConnectionId(counter) == [value |-> counter, next |-> counter + 1]

\* mutant: the counter is read and not advanced
NextMessageIdStuck(counter) == [value |-> counter, next |-> counter]

NextMessageId(counter) == [value |-> counter, next |-> counter + 1]

\* ConnectionManager.register
Register(d, conn) == DictSet(d, conn.id, conn)

\* mutant: every entry with the connection's name is removed
DisconnectByName(d, conn) ==
  [i \in 1..Len(d) |-> IF d[i] # Dummy /\ d[i].name = conn.name THEN Dummy ELSE d[i]]

\* ConnectionManager.disconnect
Disconnect(d, conn) == DictPop(d, conn.id)

\* ------------------------------------------------------- the cooldowns
\* main.py 31-32: Cooldown(limit, time_period, CooldownBucket.args): one
\* bucket per tuple of call arguments, made full on first use; entering the
\* cooldown takes one call from the bucket, or raises CallableOnCooldown when
\* none is left; a call taken is given back time_period seconds later.
GlobalLimit == 25
AuthLimit == 10

\* the keys of the send route's cooldown: (x_nonce, x_connection_id)
AuthKeys == ({None} \cup {TokenHex(c) : c \in ConnIds}) \X ({None} \cup ConnIds)

\* entering a bucket with `current` calls left
CooldownEnter(current) ==
  IF current = 0 THEN [admitted |-> FALSE, current |-> 0]
  ELSE [admitted |-> TRUE, current |-> current - 1]

\* mutant: every client is counted in one bucket
GlobalKeyShared(x_forwarded_for) == "default"

\* main.py 75-77: the key of the global cooldown is the X-Forwarded-For header
GlobalKey(x_forwarded_for) == x_forwarded_for

\* the answer to an HTTP request: the key and the route of the request, the
\* status, the cooldown that denied it ("global", "route" or "none"), and the
\* calls of the key's window already taken when it arrived
HttpAnswer(key, route, status, by, taken) ==
  [key |-> key, route |-> route, status |-> status, by |-> by, taken |-> taken]
NoHttp == [key |-> "none", route |-> "none", status |-> 0, by |-> "none",
           taken |-> 0]

\* ------------------------------------------------------------------ Init
\* a send_message request: pc "idle" (not made), "fanout" (suspended in the
\* send_json of a delivery), "done" (response returned: status 204, 401, or
\* 500 for an exception raised out of the handler).  cred, stale and start
\* are history: how the credentials of the request stood against the
\* registry when they were checked, whether they were the id and nonce of a
\* connection removed before, the registry's ids when the fan-out started,
\* and the requests that were over when this one was made.
NoMessage == [id |-> 0, content |-> "", sender_name |-> "", sender_id |-> 0,
              conversation_id |-> 0]
IdleReq ==
  [pc |-> "idle", status |-> 0, message |-> NoMessage, it |-> DictIter(<<>>),
   to_disconnect |-> <<>>, cred |-> "none", stale |-> FALSE, start |-> {},
   before |-> {}]

Init ==
  /\ connection_counter = 1
  /\ message_count = 1
  /\ active_connections = <<>>
  /\ conversation_history = <<>>
  /\ ws = [c \in ConnIds |-> "none"]
  /\ pc = [c \in ConnIds |-> "none"]
  /\ current_ack = [c \in ConnIds |-> 0]
  /\ has_missed_ping = [c \in ConnIds |-> FALSE]
  /\ has_missed_ping_twice = [c \in ConnIds |-> FALSE]
  /\ connection = [c \in ConnIds |-> Dummy]
  /\ close_code = [c \in ConnIds |-> 0]
  /\ outbox = [c \in ConnIds |-> <<>>]
  /\ req = [r \in ReqIds |-> IdleReq]
  /\ issued = <<>>
  /\ lastAppended = <<>>
  /\ hist = [c \in ConnIds |-> <<>>]
  /\ lastResp = [c \in ConnIds |-> [resp |-> NoResp, ack |-> 0, outcome |-> "none"]]
  /\ cleanup = [c \in ConnIds |-> <<>>]
  /\ global_ratelimit = [k \in Addrs |-> GlobalLimit]
  /\ authenticated_ratelimit = [k \in AuthKeys |-> AuthLimit]
  /\ lastHttp = NoHttp

\* ------------------------------------------------ websocket_endpoint
\* main.py 254-265: take an id, build the Connection, register it, and
\* suspend in websocket.accept()
Connect(name) ==
  LET nid == NextConnectionId(connection_counter)
      c == nid.value
      co == Connection(c, name, TokenHex(c))
  IN  /\ connection_counter <= MaxConns
      /\ connection_counter' = nid.next
      /\ active_connections' = Register(active_connections, co)
      /\ connection' = [connection EXCEPT ![c] = co]
      /\ ws' = [ws EXCEPT ![c] = "connecting"]
      /\ pc' = [pc EXCEPT ![c] = "accept"]
      /\ UNCHANGED <<message_count, conversation_history, loopVars, close_code,
                     outbox, req, issued, lastAppended, hist, lastResp, cleanup,
                     limiterVars>>

\* main.py 374-376: an exception outside the heartbeat's try: pop and re-raise
Raise(c) ==
  LET d1 == DictPop(active_connections, c)
  IN  /\ active_connections' = d1
      /\ cleanup' = [cleanup EXCEPT ![c] = Append(@, Keys(active_connections) \ Keys(d1))]
      /\ pc' = [pc EXCEPT ![c] = "raised"]
      /\ UNCHANGED req

\* main.py 371-378: the session is over.  A break out of the loop runs the
\* else clause at 377-378: manager.disconnect once (times = 1).  A disconnect
\* raised inside the loop is caught at 371, which calls manager.disconnect
\* (372); the outer try has then ended without an exception, so its else
\* clause calls manager.disconnect again (378) (times = 2).
EndSession(c, times) ==
  LET d1 == Disconnect(active_connections, connection[c])
      d2 == IF times = 2 THEN Disconnect(d1, connection[c]) ELSE d1
  IN  /\ active_connections' = d2
      /\ cleanup' = [cleanup EXCEPT ![c] =
            @ \o <<Keys(active_connections) \ Keys(d1)>>
              \o (IF times = 2 THEN <<Keys(d1) \ Keys(d2)>> ELSE <<>>)]
      /\ pc' = [pc EXCEPT ![c] = "done"]
      /\ UNCHANGED req

\* main.py 265-271: websocket.accept() returns and HELLO, with the id and the
\* nonce of the Connection, is handed to the websocket (the session is then
\* suspended in that send_json); or accept raises because the peer left
Accept(c) ==
  /\ pc[c] = "accept"
  /\ IF ws[c] = "connecting"
       THEN /\ ws' = [ws EXCEPT ![c] = "open"]
            /\ outbox' = [outbox EXCEPT
                 ![c] = Append(@, Hello(connection[c].id, connection[c].nonce))]
            /\ pc' = [pc EXCEPT ![c] = "hello"]
            /\ UNCHANGED <<active_connections, req, cleanup>>
       ELSE /\ Raise(c)
            /\ UNCHANGED <<ws, outbox>>
  /\ UNCHANGED <<connection_counter, message_count, conversation_history,
                 loopVars, connection, close_code, issued,
                 lastAppended, hist, lastResp, limiterVars>>

\* main.py 277-285: the top of the loop, reached without an await from the
\* step before it: after two misses in a row close with 4002, else start the
\* interval wait.  The values of pc, ws and close_code for connection c.
LoopTop(c, twice) ==
  IF twice
    THEN [pc |-> "closing", close_code |-> 4002,
          ws |-> IF ws[c] = "open" THEN "server_closed" ELSE ws[c]]
    ELSE [pc |-> "sleep", close_code |-> close_code[c], ws |-> ws[c]]

\* main.py 266-276: the send_json of HELLO returns and the loop is entered
\* with its three locals; or it raises because the peer left meanwhile
SayHello(c) ==
  /\ pc[c] = "hello"
  /\ IF "ok" \in SendOutcomes(ws[c])
       THEN /\ current_ack' = [current_ack EXCEPT ![c] = 0]
            /\ has_missed_ping' = [has_missed_ping EXCEPT ![c] = FALSE]
            /\ has_missed_ping_twice' = [has_missed_ping_twice EXCEPT ![c] = FALSE]
            /\ pc' = [pc EXCEPT ![c] = LoopTop(c, FALSE).pc]
            /\ UNCHANGED <<active_connections, req, cleanup>>
       ELSE /\ Raise(c)
            /\ UNCHANGED loopVars
  /\ UNCHANGED <<connection_counter, message_count, conversation_history, ws,
                 connection, close_code, outbox, issued, lastAppended, hist,
                 lastResp, limiterVars>>

\* main.py 279-283 and 371-378: close() returns and the loop is left by the
\* break (one cleanup call); on a websocket whose peer has left, close() may
\* instead raise the disconnect the inner handler catches (two calls)
CloseDone(c) ==
  /\ pc[c] = "closing"
  /\ \E times \in (IF ws[c] = "peer_closed" THEN {1, 2} ELSE {1}) :
       EndSession(c, times)
  /\ UNCHANGED <<connection_counter, message_count, conversation_history, ws,
                 loopVars, connection, close_code, outbox, issued,
                 lastAppended, hist, lastResp, limiterVars>>

\* main.py 285-294: the wait is over.  A peer that has left shows as
\* client_state DISCONNECTED (break) or as the PING send raising the
\* disconnect (caught at 371): both end in manager.disconnect.  Otherwise
\* the PING with the current ack is sent and the loop waits for a text.
Wake(c, budget) ==
  /\ pc[c] = "sleep"
  /\ IF "ok" \in SendOutcomes(ws[c])
       THEN /\ budget > 0
            /\ outbox' = [outbox EXCEPT ![c] = Append(@, Ping(current_ack[c]))]
            /\ pc' = [pc EXCEPT ![c] = "receive"]
            /\ UNCHANGED <<active_connections, req, cleanup>>
       ELSE /\ \E times \in {1, 2} : EndSession(c, times)
            /\ UNCHANGED outbox
  /\ UNCHANGED <<connection_counter, message_count, conversation_history, ws,
                 loopVars, connection, close_code, issued, lastAppended, hist,
                 lastResp, limiterVars>>

\* the ack carried by the last PING sent on connection c
LastPingAck(c) ==
  LET ps == {i \in 1..Len(outbox[c]) : outbox[c][i].type = "PING"}
  IN  outbox[c][CHOOSE i \in ps : \A j \in ps : j <= i].data

\* main.py 295-369 and 277-285: a text arrives; classify it; on a miss send
\* the ERROR and set the flags, on a correct PONG advance the ack and clear
\* them; then the top of the loop, up to its await (close or sleep).
\* An exception that is neither JSONDecodeError nor a disconnect leaves
\* through the handler at 374-376.
Receive(c, resp) ==
  LET out == HandleResponse(resp, current_ack[c])
      miss == MissFlags(has_missed_ping[c], has_missed_ping_twice[c])
      ok == OkFlags(has_missed_ping[c], has_missed_ping_twice[c])
  IN  /\ pc[c] = "receive"
      /\ ws[c] = "open"
      /\ hist' = [hist EXCEPT ![c] =
            Append(@, IF resp = GoodPong(LastPingAck(c)) THEN "ok" ELSE "miss")]
      /\ lastResp' = [lastResp EXCEPT
            ![c] = [resp |-> resp, ack |-> current_ack[c], outcome |-> out]]
      /\ IF out = "ok"
           THEN /\ current_ack' = [current_ack EXCEPT ![c] = AckAfter(out, @)]
                /\ has_missed_ping' = [has_missed_ping EXCEPT ![c] = ok.missed]
                /\ has_missed_ping_twice' =
                     [has_missed_ping_twice EXCEPT ![c] = ok.twice]
                /\ pc' = [pc EXCEPT ![c] = LoopTop(c, ok.twice).pc]
                /\ ws' = [ws EXCEPT ![c] = LoopTop(c, ok.twice).ws]
                /\ close_code' = [close_code EXCEPT ![c] = LoopTop(c, ok.twice).close_code]
                /\ UNCHANGED <<outbox, active_connections, req, cleanup>>
         ELSE IF out \in ErrorCodes
           THEN /\ outbox' = [outbox EXCEPT ![c] = Append(@, Error(out))]
                /\ has_missed_ping' = [has_missed_ping EXCEPT ![c] = miss.missed]
                /\ has_missed_ping_twice' =
                     [has_missed_ping_twice EXCEPT ![c] = miss.twice]
                /\ pc' = [pc EXCEPT ![c] = LoopTop(c, miss.twice).pc]
                /\ ws' = [ws EXCEPT ![c] = LoopTop(c, miss.twice).ws]
                /\ close_code' = [close_code EXCEPT ![c] = LoopTop(c, miss.twice).close_code]
                /\ current_ack' = [current_ack EXCEPT ![c] = AckAfter(out, @)]
                /\ UNCHANGED <<active_connections, req, cleanup>>
         ELSE /\ Raise(c)
              /\ UNCHANGED <<outbox, loopVars, ws, close_code>>
      /\ UNCHANGED <<connection_counter, message_count, conversation_history,
                     connection, issued, lastAppended, limiterVars>>

\* main.py 295 and 371-373: receive_text raises WebSocketDisconnect
ReceiveDisconnect(c) ==
  /\ pc[c] = "receive"
  /\ ws[c] = "peer_closed"
  /\ EndSession(c, 2)
  /\ UNCHANGED <<connection_counter, message_count, conversation_history, ws,
                 loopVars, connection, close_code, outbox, issued,
                 lastAppended, hist, lastResp, limiterVars>>

\* the client closes its end of the websocket
ClientDisconnect(c, budget) ==
  /\ budget > 0
  /\ ws[c] \in {"connecting", "open"}
  /\ ws' = [ws EXCEPT ![c] = "peer_closed"]
  /\ UNCHANGED <<managerVars, pc, loopVars, connection, close_code, outbox,
                 req, issued, lastAppended, hist, lastResp, cleanup,
                 limiterVars>>

\* ------------------------------------------------ send_message
\* mutant: the check looks the connection up and never compares the nonce
AuthorizedIdOnly(d, x_connection_id, x_nonce) ==
  DictGet(d, x_connection_id) # Dummy

\* mutant: the credentials are checked against every connection ever made
AuthorizedEverMade(d, x_connection_id, x_nonce) ==
  IF x_connection_id \in ConnIds
    THEN connection[x_connection_id] # Dummy
         /\ connection[x_connection_id].nonce = x_nonce
    ELSE FALSE

\* main.py 185-186: the credentials check of the send route
Authorized(d, x_connection_id, x_nonce) ==
  LET co == DictGet(d, x_connection_id)
  IN  ~(co = Dummy \/ (co # Dummy /\ co.nonce # x_nonce))

\* mutant: the message is given the id of its sender
MessageIdOfSender(id, content, sender, conversation_id) ==
  [id |-> sender.id, content |-> content, sender_name |-> sender.name,
   sender_id |-> sender.id, conversation_id |-> conversation_id]

\* main.py 189-195: the Message built for an accepted send
Message(id, content, sender, conversation_id) ==
  [id |-> id, content |-> content, sender_name |-> sender.name,
   sender_id |-> sender.id, conversation_id |-> conversation_id]

\* mutant: the message is put in front of the conversation
AppendHistoryFront(h, message) ==
  IF message.conversation_id \in DOMAIN h
    THEN [h EXCEPT ![message.conversation_id] = <<message>> \o @]
    ELSE [k \in DOMAIN h \cup {message.conversation_id} |->
            IF k = message.conversation_id THEN <<message>> ELSE h[k]]

\* mutant: the conversation is made anew for every message
AppendHistoryReplace(h, message) ==
  [k \in DOMAIN h \cup {message.conversation_id} |->
     IF k = message.conversation_id THEN <<message>> ELSE h[k]]

\* connection_manager.py 39-42: append to the conversation, made on first use
AppendHistory(h, message) ==
  IF message.conversation_id \in DOMAIN h
    THEN [h EXCEPT ![message.conversation_id] = Append(@, message)]
    ELSE [k \in DOMAIN h \cup {message.conversation_id} |->
            IF k = message.conversation_id THEN <<message>> ELSE h[k]]

\* main.py 152-156: the latest message of a conversation (404 shown as NoMessage)
FetchLatestMessage(h, conversation_id) ==
  IF conversation_id \notin DOMAIN h \/ h[conversation_id] = <<>>
    THEN NoMessage
    ELSE h[conversation_id][Len(h[conversation_id])]

\* connection_manager.py 52-54: disconnect every connection collected
RECURSIVE Prune(_, _)
Prune(d, to_disconnect) ==
  IF to_disconnect = <<>> THEN d
  ELSE Prune(Disconnect(d, Head(to_disconnect)), Tail(to_disconnect))

\* mutant: a connection whose delivery fails is disconnected on the spot
FanoutAdvanceEager(q, d, w, o) ==
  LET n == DictIterNext(d, q.it)
      return == [q EXCEPT !.pc = "done", !.it = DictIter(<<>>), !.to_disconnect = <<>>]
  IN  IF n.kind = "RuntimeError"
        THEN [req |-> [return EXCEPT !.status = 500], to |-> 0, registry |-> d]
      ELSE IF n.kind = "StopIteration"
        THEN [req |-> [return EXCEPT !.status = 204], to |-> 0,
              registry |-> Prune(d, q.to_disconnect)]
      ELSE IF o = "ok"
        THEN [req |-> [q EXCEPT !.pc = "fanout", !.it = n.it],
              to |-> n.item.id, registry |-> d]
      ELSE IF o = "closed"
        THEN [req |-> [q EXCEPT !.pc = "fanout", !.it = n.it,
                                !.to_disconnect = Append(@, n.item)],
              to |-> 0, registry |-> Disconnect(d, n.item)]
      ELSE [req |-> [return EXCEPT !.status = 500], to |-> 0, registry |-> d]

\* connection_manager.py 46-54: from one await of the loop to the next: take
\* the next connection from the values iterator and send it the packet, with
\* outcome o; or, when the iterator is exhausted, prune and return.  q is the
\* request, d the registry, w the websocket states.
FanoutAdvance(q, d, w, o) ==
  LET n == DictIterNext(d, q.it)
      return == [q EXCEPT !.pc = "done", !.it = DictIter(<<>>), !.to_disconnect = <<>>]
  IN  IF n.kind = "RuntimeError"
        THEN [req |-> [return EXCEPT !.status = 500], to |-> 0, registry |-> d]
      ELSE IF n.kind = "StopIteration"
        THEN [req |-> [return EXCEPT !.status = 204], to |-> 0,
              registry |-> Prune(d, q.to_disconnect)]
      ELSE IF o = "ok"
        THEN [req |-> [q EXCEPT !.pc = "fanout", !.it = n.it],
              to |-> n.item.id, registry |-> d]
      ELSE IF o = "closed"
        THEN [req |-> [q EXCEPT !.pc = "fanout", !.it = n.it,
                                !.to_disconnect = Append(@, n.item)],
              to |-> 0, registry |-> d]
      ELSE [req |-> [return EXCEPT !.status = 500], to |-> 0, registry |-> d]

\* the outcomes the next delivery of request q can have
FanoutOutcomes(q, d, w) ==
  LET n == DictIterNext(d, q.it)
  IN  IF n.kind = "item" THEN SendOutcomes(w[n.item.id]) ELSE {"ok"}

\* the effect of a fan-out step of request r on the shared state
FanoutEffect(r, res) ==
  /\ active_connections' = res.registry
  /\ req' = [req EXCEPT ![r] = res.req]
  /\ outbox' = IF res.to = 0 THEN outbox
               ELSE [outbox EXCEPT ![res.to] = Append(@, NewMessage(res.req.message))]

\* main.py 184-198: the send route up to its first await: the credentials
\* check (401), then the message with the next id, appended to the history,
\* and the first delivery of the fan-out.  The two cooldowns the request has
\* passed before this block (lines 77 and 184) are the caller's part: see
\* PostMessage.
SendMessage(r, conversation_id, content, x_connection_id, x_nonce) ==
  LET nid == NextMessageId(message_count)
      sender == DictGet(active_connections, x_connection_id)
      message == Message(nid.value, content, sender, conversation_id)
      q == [req[r] EXCEPT
              !.cred = IF x_connection_id \notin Keys(active_connections)
                         THEN "no_conn"
                       ELSE IF connection[x_connection_id].nonce # x_nonce
                         THEN "bad_nonce"
                       ELSE "ok",
              !.stale = IF x_connection_id \in ConnIds
                          THEN /\ connection[x_connection_id] # Dummy
                               /\ x_connection_id \notin Keys(active_connections)
                               /\ connection[x_connection_id].nonce = x_nonce
                          ELSE FALSE,
              !.before = {x \in ReqIds : req[x].pc = "done"}]
  IN  /\ req[r].pc = "idle"
      /\ IF r = 1 THEN TRUE ELSE req[r - 1].pc # "idle"
      /\ IF ~Authorized(active_connections, x_connection_id, x_nonce)
           THEN /\ req' = [req EXCEPT ![r] = [q EXCEPT !.pc = "done", !.status = 401]]
                /\ UNCHANGED <<message_count, conversation_history, issued,
                               lastAppended, active_connections, outbox>>
           ELSE /\ message_count' = nid.next
                /\ issued' = Append(issued, nid.value)
                /\ conversation_history' = AppendHistory(conversation_history, message)
                /\ lastAppended' =
                     [k \in DOMAIN lastAppended \cup {conversation_id} |->
                        IF k = conversation_id THEN message ELSE lastAppended[k]]
                /\ \E o \in FanoutOutcomes(
                        [q EXCEPT !.it = DictIter(active_connections)],
                        active_connections, ws) :
                     FanoutEffect(r, FanoutAdvance(
                        [q EXCEPT !.message = message,
                                  !.it = DictIter(active_connections),
                                  !.start = Keys(active_connections)],
                        active_connections, ws, o))
      /\ UNCHANGED <<connection_counter, ws, pc, loopVars, connection,
                     close_code, hist, lastResp, cleanup>>

\* connection_manager.py 46-54: a suspended fan-out resumes
FanoutStep(r) ==
  /\ req[r].pc = "fanout"
  /\ \E o \in FanoutOutcomes(req[r], active_connections, ws) :
       FanoutEffect(r, FanoutAdvance(req[r], active_connections, ws, o))
  /\ UNCHANGED <<connection_counter, message_count, conversation_history, ws,
                 pc, loopVars, connection, close_code, issued, lastAppended,
                 hist, lastResp, cleanup, limiterVars>>

\* ------------------------------------------------ the HTTP routes
\* main.py 72-88 and 147-156: GET /conversations/{id}/messages/latest under
\* the middleware: the global cooldown of the request's key is entered first;
\* CallableOnCooldown is answered 429 and call_next is not reached
GetLatest(x_forwarded_for, conversation_id) ==
  LET key == GlobalKey(x_forwarded_for)
      e == CooldownEnter(global_ratelimit[key])
      taken == GlobalLimit - global_ratelimit[key]
      found == FetchLatestMessage(conversation_history, conversation_id)
  IN  /\ IF ~e.admitted
           THEN /\ lastHttp' = HttpAnswer(x_forwarded_for, "GET", 429, "global", taken)
                /\ UNCHANGED global_ratelimit
           ELSE /\ global_ratelimit' = [global_ratelimit EXCEPT ![key] = e.current]
                /\ lastHttp' = HttpAnswer(x_forwarded_for, "GET",
                                          IF found = NoMessage THEN 404 ELSE 200,
                                          "none", taken)
      /\ UNCHANGED <<managerVars, ws, pc, loopVars, connection, close_code,
                     outbox, req, issued, lastAppended, hist, lastResp, cleanup,
                     authenticated_ratelimit>>

\* main.py 72-88 and 169-198: POST /conversations/{id}/messages under the
\* middleware: the global cooldown (429 from the middleware), then the
\* route's own cooldown keyed by the two headers (429 from the handler at
\* 61-69), then the route's body.  The status of an admitted request is the
\* one known when the handler first suspends (0: not answered yet).
PostMessage(x_forwarded_for, r, conversation_id, content, x_connection_id, x_nonce) ==
  LET key == GlobalKey(x_forwarded_for)
      e == CooldownEnter(global_ratelimit[key])
      taken == GlobalLimit - global_ratelimit[key]
      akey == <<x_nonce, x_connection_id>>
      a == CooldownEnter(authenticated_ratelimit[akey])
      untouched == <<managerVars, ws, pc, loopVars, connection, close_code,
                     outbox, req, issued, lastAppended, hist, lastResp, cleanup>>
  IN  IF ~e.admitted
        THEN /\ lastHttp' = HttpAnswer(x_forwarded_for, "POST", 429, "global", taken)
             /\ UNCHANGED <<global_ratelimit, authenticated_ratelimit, untouched>>
      ELSE IF ~a.admitted
        THEN /\ global_ratelimit' = [global_ratelimit EXCEPT ![key] = e.current]
             /\ lastHttp' = HttpAnswer(x_forwarded_for, "POST", 429, "route", taken)
             /\ UNCHANGED <<authenticated_ratelimit, untouched>>
      ELSE /\ global_ratelimit' = [global_ratelimit EXCEPT ![key] = e.current]
           /\ authenticated_ratelimit' =
                [authenticated_ratelimit EXCEPT ![akey] = a.current]
           /\ SendMessage(r, conversation_id, content, x_connection_id, x_nonce)
           /\ lastHttp' = HttpAnswer(x_forwarded_for, "POST", req'[r].status,
                                     "none", taken)

\* time_period seconds after a call was taken from a bucket it is given back
GlobalReset(key) ==
  /\ global_ratelimit[key] < GlobalLimit
  /\ global_ratelimit' = [global_ratelimit EXCEPT ![key] = @ + 1]
  /\ UNCHANGED <<managerVars, ws, pc, loopVars, connection, close_code, outbox,
                 req, issued, lastAppended, hist, lastResp, cleanup,
                 authenticated_ratelimit, lastHttp>>

AuthReset(akey) ==
  /\ authenticated_ratelimit[akey] < AuthLimit
  /\ authenticated_ratelimit' = [authenticated_ratelimit EXCEPT ![akey] = @ + 1]
  /\ UNCHANGED <<managerVars, ws, pc, loopVars, connection, close_code, outbox,
                 req, issued, lastAppended, hist, lastResp, cleanup,
                 global_ratelimit, lastHttp>>

\* the nonces clients know: those a HELLO has carried
Revealed ==
  UNION {{outbox[c][i].data[2] :
            i \in {j \in 1..Len(outbox[c]) : outbox[c][j].type = "HELLO"}} :
         c \in ConnIds}

\* the number of clients that have closed their websocket
Drops == Cardinality({c \in ConnIds : ws[c] = "peer_closed"})

\* ------------------------------------------------------- specifications
\* The whole system: connections open and are dropped, sends are made and
\* fan out, all interleaved at the awaits.  In a run of this specification
\* every interval wait that ends finds the peer gone, so no PING is sent; the
\* PING/PONG exchange is the subject of SpecHB.
Next ==
  \/ \E name \in Names : Connect(name)
  \/ \E c \in ConnIds : Accept(c)
  \/ \E c \in ConnIds : SayHello(c)
  \/ \E c \in ConnIds : Wake(c, 0)
  \/ \E c \in ConnIds : ClientDisconnect(c, MaxDrops - Drops)
  \/ \E r \in ReqIds, conversation_id \in Convs, content \in Contents,
        x_connection_id \in {None} \cup ConnIds,
        x_nonce \in {None} \cup Revealed :
       /\ SendMessage(r, conversation_id, content, x_connection_id, x_nonce)
       /\ UNCHANGED limiterVars
  \/ \E r \in ReqIds : FanoutStep(r)

Spec == Init /\ [][Next]_vars

\* One heartbeat session from connect to its end: the client answers each
\* PING with any of the responses, or leaves.
NextHB ==
  \/ \E name \in Names : connection_counter = 1 /\ Connect(name)
  \/ Accept(1)
  \/ SayHello(1)
  \/ Wake(1, HBCycles - Pings(1))
  \/ \E resp \in Responses(0..HBCycles) : Receive(1, resp)
  \/ ReceiveDisconnect(1)
  \/ CloseDone(1)
  \/ ClientDisconnect(1, 1)

SpecHB == Init /\ [][NextHB]_vars

\* The sessions of all connections from connect to their end, without sends:
\* each client answers a PING with the correct PONG, with a text that is not
\* JSON or with a JSON value that is no object, or leaves.
NextReg ==
  \/ \E name \in Names : Connect(name)
  \/ \E c \in ConnIds : Accept(c)
  \/ \E c \in ConnIds : SayHello(c)
  \/ \E c \in ConnIds : Wake(c, HBCycles - Pings(c))
  \/ \E c \in ConnIds :
       \E resp \in {GoodPong(current_ack[c]),
                    Resp("text", "absent", "absent", NoAck),
                    Resp("scalar", "absent", "absent", NoAck)} : Receive(c, resp)
  \/ \E c \in ConnIds : ReceiveDisconnect(c)
  \/ \E c \in ConnIds : CloseDone(c)
  \/ \E c \in ConnIds : ClientDisconnect(c, MaxDrops - Drops)

SpecReg == Init /\ [][NextReg]_vars

\* the requests of a run: any number without the X-Forwarded-For header, and
\* from the other address as long as fewer than MaxOther of its calls are taken
MayRequest(x_forwarded_for) ==
  \/ x_forwarded_for = "default"
  \/ GlobalLimit - global_ratelimit[x_forwarded_for] < MaxOther

\* The HTTP routes under their cooldowns: one connection is open, requests
\* arrive with either X-Forwarded-For value, sends come with the credentials
\* of the connection or with its id alone, and calls taken from a bucket are
\* given back as time passes.
NextRL ==
  \/ \E name \in Names : connection_counter = 1 /\ Connect(name)
  \/ Accept(1)
  \/ SayHello(1)
  \/ \E x_forwarded_for \in Addrs :
       MayRequest(x_forwarded_for) /\ GetLatest(x_forwarded_for, 7)
  \/ \E x_forwarded_for \in Addrs, content \in Contents,
        x_nonce \in {None} \cup Revealed :
       /\ MayRequest(x_forwarded_for)
       /\ PostMessage(x_forwarded_for, 1, 7, content, 1, x_nonce)
  \/ FanoutStep(1)
  \/ \E key \in Addrs : GlobalReset(key)
  \/ \E akey \in AuthKeys : AuthReset(akey)

SpecRL == Init /\ [][NextRL]_vars

\* ---------------------------------------------------------------- claims
\* how often connection c was sent the NEW_MESSAGE of message m
Received(c, m) ==
  Cardinality({i \in 1..Len(outbox[c]) : outbox[c][i] = NewMessage(m)})

IsPrefix(s, t) == Len(s) <= Len(t) /\ \A i \in 1..Len(s) : s[i] = t[i]

\* C1: the k-th message id handed out by next_message_id is k: ids start at
\* 1, go up by 1, none repeated, skipped or reset, whatever the interleaving
\* of the sends and whatever their conversations.
C1_MessageIdsSequential ==
  /\ \A k \in 1..Len(issued) : issued[k] = k
  /\ message_count = Len(issued) + 1

\* two sends in two conversations, the first still fanning out
C1_Witness ==
  /\ Len(issued) >= 2
  /\ req[1].pc = "fanout"
  /\ Cardinality(DOMAIN conversation_history) = 2

\* C2: each conversation's history is append-only and in id order: every
\* step leaves the old history a prefix of the new one, ids are strictly
\* increasing along it, and the latest message is the last one appended.
C2_HistoryAppendOnly ==
  /\ [](\A k \in DOMAIN conversation_history :
          LET h == conversation_history[k]
          IN  /\ \A i, j \in 1..Len(h) : i < j => h[i].id < h[j].id
              /\ \A i \in 1..Len(h) : h[i].conversation_id = k
              /\ FetchLatestMessage(conversation_history, k) = lastAppended[k])
  /\ [][\A k \in DOMAIN conversation_history :
          /\ k \in DOMAIN conversation_history'
          /\ IsPrefix(conversation_history[k], conversation_history'[k])]_vars

\* a conversation holds two messages while both fan-outs are suspended
C2_Witness ==
  \E k \in DOMAIN conversation_history :
    /\ Len(conversation_history[k]) = 2
    /\ req[1].pc = "fanout"
    /\ req[2].pc = "fanout"

\* C3: a send whose connection id is not registered, or whose nonce is not
\* that of the registered connection, is answered 401, and the step that
\* rejects it leaves the histories, the id counter and every outbox alone.
C3_UnauthorizedChangesNothing ==
  /\ [](\A r \in ReqIds :
          req[r].cred \in {"no_conn", "bad_nonce"} =>
            /\ req[r].pc = "done"
            /\ req[r].status = 401
            /\ req[r].message = NoMessage)
  /\ [][\A r \in ReqIds :
          (req[r].pc = "idle" /\ req'[r].cred \in {"no_conn", "bad_nonce"}) =>
            UNCHANGED <<conversation_history, message_count, issued, outbox,
                        active_connections>>]_vars

\* a registered connection's id sent with another connection's nonce is
\* rejected after a send has been accepted
C3_Witness ==
  /\ req[1].status = 204
  /\ req[2].cred = "bad_nonce"
  /\ req[2].status = 401
  /\ Len(issued) = 1

\* C4: every connection registered when a deliver call started its fan-out
\* has, once the call is over, received that message exactly once or is out
\* of the registry; a connection registered later has not received it; no
\* connection receives it twice.
C4_DeliverReachesAllAtStart ==
  \A r \in ReqIds :
    /\ \A c \in ConnIds :
         req[r].message # NoMessage => Received(c, req[r].message) <= 1
    /\ (req[r].pc = "done" /\ req[r].status \in {204, 500}) =>
         /\ \A c \in req[r].start :
              \/ Received(c, req[r].message) = 1
              \/ c \notin Keys(active_connections)
         /\ \A c \in ConnIds \ req[r].start : Received(c, req[r].message) = 0

\* the ids of the connections a fan-out has collected for disconnection
FailedIds(q) == {q.to_disconnect[i].id : i \in 1..Len(q.to_disconnect)}

Misses(c) ==
  IF has_missed_ping_twice[c] THEN 2 ELSE IF has_missed_ping[c] THEN 1 ELSE 0

\* the number of misses at the end of a sequence of "ok" / "miss"
RECURSIVE TrailingMisses(_)
TrailingMisses(h) ==
  IF h = <<>> \/ h[Len(h)] = "ok" THEN 0
  ELSE 1 + TrailingMisses(SubSeq(h, 1, Len(h) - 1))

ErrorsSent(c) == {i \in 1..Len(outbox[c]) : outbox[c][i].type = "ERROR"}

\* the last two PINGs on c were both answered by an ERROR
TwoErrorsInARow(c) ==
  LET n == Len(outbox[c])
  IN  /\ n >= 4
      /\ outbox[c][n].type = "ERROR"
      /\ outbox[c][n - 1].type = "PING"
      /\ outbox[c][n - 2].type = "ERROR"
      /\ outbox[c][n - 3].type = "PING"

\* C6: a session whose client has answered every PING with the PONG of that
\* PING's ack has no miss recorded, was sent no ERROR, and is not closed with
\* 4002, however many cycles it has run.
C6_CorrectClientNeverMisses ==
  \A c \in ConnIds :
    (\A i \in 1..Len(hist[c]) : hist[c][i] = "ok") =>
      /\ Misses(c) = 0
      /\ ErrorsSent(c) = {}
      /\ close_code[c] = 0
      /\ pc[c] # "closing"
      /\ current_ack[c] = Len(hist[c])
      /\ lastResp[c].outcome \in {"none", "ok"}

\* every PING of the session so far was answered correctly, HBCycles of them
C6_Witness ==
  /\ Len(hist[1]) = HBCycles
  /\ \A i \in 1..Len(hist[1]) : hist[1][i] = "ok"
  /\ pc[1] = "sleep"

C8_OnlyConsecutiveMissesCount ==
  \A c \in ConnIds :
    /\ Misses(c) \in {0, 1, 2}
    /\ has_missed_ping_twice[c] => has_missed_ping[c]
    /\ pc[c] # "raised" => Misses(c) = TrailingMisses(hist[c])
    /\ (hist[c] # <<>> /\ hist[c][Len(hist[c])] = "ok") =>
         /\ Misses(c) = 0
         /\ close_code[c] = 0
         /\ pc[c] # "closing"
    /\ close_code[c] = 4002 =>
         /\ Len(hist[c]) >= 2
         /\ hist[c][Len(hist[c])] = "miss"
         /\ hist[c][Len(hist[c]) - 1] = "miss"

\* a miss, a correct PONG, and one more miss: the session is still running
C8_Witness ==
  /\ hist[1] = <<"miss", "ok", "miss">>
  /\ pc[1] = "sleep"
  /\ Misses(1) = 1

\* the outcome C9 gives for a response to a PING with the given ack
Claimed(resp, ack) ==
  IF resp.shape = "text" THEN "4001"
  ELSE IF resp.type # "PONG" THEN "4003"
  ELSE IF resp.data = "absent" THEN "4004"
  ELSE IF resp.ack # ack THEN "4005"
  ELSE "ok"

\* C9: every response is classified in the order not JSON (4001), type not
\* PONG or no type field (4003), data field missing (4004), ack different
\* (4005), else success; each violation sends the one ERROR with its code
\* and counts one miss.  Stated for the responses that are not JSON or are a
\* JSON object whose data field is absent or an object.
C9_ClassifiedAsClaimed ==
  \A c \in ConnIds :
    (/\ lastResp[c].outcome # "none"
     /\ lastResp[c].resp.shape \in {"text", "object"}
     /\ lastResp[c].resp.data \in {"absent", "obj"}) =>
      LET want == Claimed(lastResp[c].resp, lastResp[c].ack)
      IN  /\ lastResp[c].outcome = want
          /\ want \in ErrorCodes =>
               /\ outbox[c][Len(outbox[c])] = Error(want)
               /\ Misses(c) >= 1

\* C10: whatever the shape of a response, the session reports a miss (or a
\* success) and goes on: handling a response never raises out of the
\* session, which ends only by a disconnect or by the 4002 close.
C10_NoViolationEndsSession ==
  \A c \in ConnIds :
    /\ lastResp[c].outcome \in {"none", "ok"} \cup ErrorCodes
    /\ (pc[c] = "raised" => hist[c] = <<>>)
    /\ (hist[c] # <<>> /\ pc[c] = "done") =>
         (ws[c] = "peer_closed" \/ close_code[c] = 4002)

\* ------------------------------------------------- registry claims
\* the session of connection c is over
Ended(c) == pc[c] \in {"done", "raised"}

\* C11: once a session is over, however it ended, its connection is out of
\* the registry and stays out; the first cleanup call of the session removed
\* its entry and nothing else, every further call removed nothing; an entry
\* leaves the registry only in the step that ends its own session.
C11_CleanupExactlyOnce ==
  /\ [](\A c \in ConnIds :
          Ended(c) =>
            /\ c \notin Keys(active_connections)
            /\ Len(cleanup[c]) \in {1, 2}
            /\ cleanup[c][1] = {c}
            /\ \A i \in 2..Len(cleanup[c]) : cleanup[c][i] = {})
  /\ [][\A c \in ConnIds :
          /\ Ended(c) => (pc'[c] = pc[c] /\ c \notin Keys(active_connections'))
          /\ (c \in Keys(active_connections) /\ c \notin Keys(active_connections'))
               => (~Ended(c) /\ pc'[c] \in {"done", "raised"})]_vars

\* a session ended by a disconnect caught in the loop, so with two cleanup
\* calls, while a connection of the same name stays registered; the other
\* session was closed with 4002
C11_Witness ==
  \E c, o \in ConnIds :
    /\ c # o
    /\ pc[c] = "done"
    /\ Len(cleanup[c]) = 2
    /\ connection[o].name = connection[c].name
    /\ close_code[o] = 4002
    /\ o \in Keys(active_connections)

\* the connections made so far
Made == {c \in ConnIds : connection[c] # Dummy}

\* C12: connection ids are 1, 2, 3, ... in the order the connections are made
\* and none is handed out twice, also after disconnects: the live entries of
\* the registry have distinct ids, each is the Connection that was registered
\* under its id, and a registration adds the id the counter stood at, which
\* no connection has had before, and leaves every other entry as it was.
C12_ConnectionIdsUnique ==
  /\ [](/\ Made = 1..(connection_counter - 1)
        /\ Keys(active_connections) \subseteq Made
        /\ \A i, j \in 1..Len(active_connections) :
             (i # j /\ active_connections[i] # Dummy /\ active_connections[j] # Dummy)
               => active_connections[i].id # active_connections[j].id
        /\ \A i \in 1..Len(active_connections) :
             active_connections[i] # Dummy =>
               active_connections[i] = connection[active_connections[i].id])
  /\ [][/\ connection_counter' >= connection_counter
        /\ \A c \in Made : connection'[c] = connection[c]
        /\ \A c \in Keys(active_connections') \ Keys(active_connections) :
             /\ c = connection_counter
             /\ c \notin Made
             /\ connection_counter' = c + 1
             /\ Keys(active_connections) \subseteq Keys(active_connections')]_vars

\* the first connection is out of the registry, its slot left empty, and the
\* second one is registered under the id 2
C12_Witness ==
  /\ Len(active_connections) = 2
  /\ active_connections[1] = Dummy
  /\ active_connections[2] # Dummy
  /\ active_connections[2].id = 2
  /\ pc[1] = "done"
  /\ pc[2] = "accept"

\* the positions of the HELLO packets sent on connection c
Hellos(c) == {i \in 1..Len(outbox[c]) : outbox[c][i].type = "HELLO"}

\* C13: a connection is sent at most one HELLO, exactly one once it has been
\* accepted, carrying the id and the nonce it is registered with, and nothing
\* is sent on it before its HELLO.
C13_HelloFirst ==
  \A c \in ConnIds :
    /\ Cardinality(Hellos(c)) <= 1
    /\ pc[c] \in {"hello", "sleep", "receive", "closing", "done"} =>
         Cardinality(Hellos(c)) = 1
    /\ \A i \in Hellos(c) :
         outbox[c][i] = Hello(connection[c].id, connection[c].nonce)
    /\ outbox[c] # <<>> => outbox[c][1].type = "HELLO"

C15_SendReachesAll ==
  \A r \in ReqIds :
    LET m == req[r].message
    IN  m # NoMessage =>
          /\ m.conversation_id \in DOMAIN conversation_history
          /\ \E i \in 1..Len(conversation_history[m.conversation_id]) :
               conversation_history[m.conversation_id][i] = m
          /\ m.sender_id \in Made
          /\ m.sender_name = connection[m.sender_id].name
          /\ m.sender_id \in req[r].start
          /\ req[r].pc = "done" =>
               \A c \in req[r].start :
                 (c \in Keys(active_connections) /\ ws[c] = "open") =>
                   Received(c, m) = 1

\* the fan-out of request q is suspended in a delivery and has connections
\* of registry d still to attempt
MidPass(q, d) ==
  /\ q.pc = "fanout"
  /\ \E i \in (q.it.pos + 1)..Len(d) : d[i] # Dummy

\* C16: while a fan-out pass is between two of its delivery attempts, no step
\* of any task changes the registry: no connection is registered and none is
\* removed.
C16_RegistryStableDuringFanout ==
  [][\A r \in ReqIds :
       MidPass(req[r], active_connections) =>
         active_connections' = active_connections]_vars

\* the number of correct responses among the first n of connection c
Correct(c, n) == Cardinality({i \in 1..n : hist[c][i] = "ok"})

\* C17: current_ack is the number of correct responses of the session so far
\* (0 at its start, one more after each correct PONG, the same after a miss of
\* any kind), and every PING carries the value current_ack had when it was
\* sent: the number of correct responses before it.
C17_AckCountsCorrect ==
  \A c \in ConnIds :
    /\ current_ack[c] = Correct(c, Len(hist[c]))
    /\ \A i \in 1..Len(outbox[c]) :
         outbox[c][i].type = "PING" =>
           outbox[c][i].data =
             Correct(c, Cardinality({j \in 1..(i - 1) : outbox[c][j].type = "PING"}))

\* correct PONGs and misses in turn: two of each, the ack stands at 2
C17_Witness ==
  /\ hist[1] = <<"ok", "miss", "ok", "miss">>
  /\ current_ack[1] = 2
  /\ Cardinality(ErrorsSent(1)) = 2

\* the places of the histories where a message with the given id is stored
StoredAt(id) ==
  UNION {{<<k, i>> : i \in {j \in 1..Len(conversation_history[k]) :
                              conversation_history[k][j].id = id}} :
         k \in DOMAIN conversation_history}

\* C18: the ids stored across all histories are exactly the ids handed out,
\* 1..n, each in one history at one place, also while fan-outs are suspended.
C18_EveryIdStoredOnce ==
  /\ \A id \in 1..Len(issued) : Cardinality(StoredAt(id)) = 1
  /\ \A k \in DOMAIN conversation_history :
       \A i \in 1..Len(conversation_history[k]) :
         conversation_history[k][i].id \in 1..Len(issued)

\* two messages in one conversation, both fan-outs suspended mid-delivery
\* with a connection still to attempt
C18_Witness ==
  /\ Len(issued) = 2
  /\ Cardinality(DOMAIN conversation_history) = 1
  /\ MidPass(req[1], active_connections)
  /\ MidPass(req[2], active_connections)

\* C19: a send is accepted only with the id and nonce of a connection that is
\* in the registry when they are checked: the id and nonce of a connection
\* that has been removed are answered 401 and store nothing, a removed id
\* never comes back into the registry, no two connections share a nonce, and
\* every stored message has the sender_id of a connection that was registered
\* in the step that appended it.
C19_OnlyRegisteredSend ==
  /\ [](/\ \A r \in ReqIds :
             /\ req[r].stale =>
                  (req[r].pc = "done" /\ req[r].status = 401
                   /\ req[r].message = NoMessage)
             /\ req[r].message # NoMessage =>
                  (req[r].cred = "ok" /\ req[r].message.sender_id \in req[r].start)
        /\ \A c, o \in Made : c # o => connection[c].nonce # connection[o].nonce)
  /\ [][/\ \A r \in ReqIds :
             (req[r].pc = "idle" /\ req'[r].message # NoMessage) =>
               /\ req'[r].message.sender_id \in Keys(active_connections)
               /\ conversation_history' # conversation_history
        /\ \A k \in DOMAIN conversation_history' :
             LET h == conversation_history'[k]
             IN  (k \notin DOMAIN conversation_history
                  \/ Len(h) > Len(conversation_history[k])) =>
                   h[Len(h)].sender_id \in Keys(active_connections)
        /\ \A c \in Made :
             c \notin Keys(active_connections) => c \notin Keys(active_connections')]_vars

\* a connection sent a message, was removed, and a later send with its id
\* and nonce was turned away
C19_Witness ==
  /\ req[1].status = 204
  /\ req[1].message.sender_id \notin Keys(active_connections)
  /\ req[2].stale
  /\ req[2].status = 401
  /\ Len(issued) = 1

\* the positions of the NEW_MESSAGE packets sent on connection c
News(c) == {i \in 1..Len(outbox[c]) : outbox[c][i].type = "NEW_MESSAGE"}

\* the request that sent the message with the given id
ReqOf(id) == CHOOSE r \in ReqIds : req[r].message.id = id

\* C20 as claimed: on every connection the NEW_MESSAGE notifications come in
\* strictly increasing message id order, also with two sends in progress.
C20_IncreasingPerConnection ==
  \A c \in ConnIds :
    \A p, q \in News(c) :
      p < q => outbox[c][p].data.id < outbox[c][q].data.id

\* C20 as amended: no connection is sent a message twice, and a connection is
\* sent a higher id before a lower one only when the send of the lower id was
\* still in progress when the send of the higher id was made; sends that do
\* not overlap reach every connection in id order.
C20_IncreasingUnlessConcurrent ==
  \A c \in ConnIds :
    \A p, q \in News(c) :
      (p < q /\ outbox[c][p].data.id >= outbox[c][q].data.id) =>
        /\ outbox[c][p].data.id > outbox[c][q].data.id
        /\ ReqOf(outbox[c][q].data.id)
             \notin req[ReqOf(outbox[c][p].data.id)].before

\* two sends one after the other, each delivered to both connections: the
\* second connection has the two messages in id order
C20_Witness ==
  /\ req[1].status = 204
  /\ req[2].status = 204
  /\ 1 \in req[2].before
  /\ Cardinality(News(1)) = 2
  /\ Cardinality(News(2)) = 2
  /\ outbox[2][Len(outbox[2])].data.id = 2

====
